---- MODULE Spec2Model ----
(***************************************************************************)
(* Model of the demo-api Flask service (src/app/app.py): the request       *)
(* handlers, the two in-memory collections, the two OpenTelemetry counters  *)
(* and the tracing spans each handler opens.                                *)
(*                                                                         *)
(* Every request is handled in a slot (a worker thread of the server).  A   *)
(* handler is cut into steps at its time.sleep calls, the places where       *)
(* another request's handler can run in between.                            *)
(*                                                                         *)
(* Prices are kept in cents (999.99 is 99999).                              *)
(***************************************************************************)
EXTENDS Integers, Sequences, FiniteSets, Bags, TLC

(* ---------------------------------------------------------------- bounds *)

\* Number of requests the server handles, each in a slot of its own.
NSlots == 2
\* Ids tried in requests range over 0..MaxId (the collections hold 1..3).
MaxId == 4
\* Longest product_ids array of an order body.
MaxLen == 3

Slots == 1..NSlots

(* ----------------------------------------------------------- JSON values *)

JInt(n) == [t |-> "int", n |-> n]
JStr(s) == [t |-> "str", s |-> s]
JList(l) == [t |-> "list", l |-> l]
JNull == [t |-> "null"]

\* Python's None, as the value of a local.
None == [none |-> TRUE]

\* A JSON array as a response body.
JArray(l) == [array |-> l]

(* ------------------------------------------------------- the collections *)

USERS ==
    << [id |-> 1, name |-> "Alice", email |-> "alice@example.com"],
       [id |-> 2, name |-> "Bob", email |-> "bob@example.com"],
       [id |-> 3, name |-> "Charlie", email |-> "charlie@example.com"] >>

PRODUCTS ==
    << [id |-> 1, name |-> "Laptop", price |-> 99999],
       [id |-> 2, name |-> "Mouse", price |-> 2999],
       [id |-> 3, name |-> "Keyboard", price |-> 7999] >>

(* -------------------------------------------------------------- requests *)

NoData == [kind |-> "none"]

\* A JSON body that is a number other than 0.
NumberData == [kind |-> "number", n |-> 5]

\* A JSON object with the keys `keys` among user_id and product_ids.
ObjectData(keys, u, p) ==
    [kind |-> "object", keys |-> keys, user_id |-> u, product_ids |-> p]

SeqsUpTo(S, n) == UNION { [1..k -> S] : k \in 0..n }

Request(route, id, data) == [route |-> route, id |-> id, data |-> data]

\* The requests over the ids `ids` and the order bodies `bodies`.
Requests(ids, bodies) ==
    { Request(rt, 0, NoData) : rt \in {"health", "users", "products", "slow", "error"} }
        \cup { Request(rt, i, NoData) : rt \in {"user", "product"}, i \in ids }
        \cup { Request("order", 0, d) : d \in bodies }

RichIds == (0..MaxId) \cup {999}

RichUserIds == { JInt(i) : i \in 0..MaxId } \cup {JNull}

RichProductIds ==
    { JList(s) : s \in SeqsUpTo(1..MaxId, MaxLen) } \cup {JNull, JInt(2)}

RichBodies ==
    {NoData, NumberData}
        \cup { ObjectData({}, JNull, JNull) }
        \cup { ObjectData({"user_id"}, u, JNull) : u \in RichUserIds }
        \cup { ObjectData({"product_ids"}, JNull, p) : p \in RichProductIds }
        \cup { ObjectData({"user_id", "product_ids"}, u, p) :
                 u \in RichUserIds, p \in RichProductIds }

RichRequests == Requests(RichIds, RichBodies)

SmallIds == {2, MaxId}

SmallBodies ==
    { NoData,
      ObjectData({"user_id"}, JInt(1), JNull),
      ObjectData({"user_id", "product_ids"}, JInt(MaxId), JList(<<1>>)),
      ObjectData({"user_id", "product_ids"}, JInt(1), JList(<<1, 2>>)),
      ObjectData({"user_id", "product_ids"}, JInt(2), JList(<<3, MaxId, 3>>)),
      ObjectData({"user_id", "product_ids"}, JInt(1), JNull) }

SmallRequests == Requests(SmallIds, SmallBodies)

\* random.randint(1000, 9999): both ends.
OrderIds == {1000, 9999}

\* random.uniform(1, 3), in whole seconds.
Delays == {1, 3}

(* ----------------------------------------------------------------- state *)

VARIABLES
    users_db,         \* the user collection
    products_db,      \* the product collection
    request_counter,  \* api_requests_total: the bag of the label sets added
    error_counter,    \* api_errors_total: the bag of the label sets added
    pc,               \* slot -> where its handler stands
    req,              \* slot -> the request it handles
    user,             \* slot -> create_order's local `user`
    total,            \* slot -> create_order's local `total`
    order_items,      \* slot -> create_order's local `order_items`
    delay,            \* slot -> slow_endpoint's local `delay`
    exc,              \* slot -> the message of the exception in flight
    resp,             \* slot -> the response sent
    trace,            \* slot -> the span starts and ends of its request, in order
    attrs             \* slot -> the span attributes set

vars == << users_db, products_db, request_counter, error_counter, pc, req,
           user, total, order_items, delay, exc, resp, trace, attrs >>

dbs == << users_db, products_db >>
locals == << user, total, order_items, delay >>

NoRequest == Request("none", 0, NoData)
NoResponse == [status |-> 0, body |-> None]

Response(body, status) == [status |-> status, body |-> body]

Init ==
    /\ users_db = USERS
    /\ products_db = PRODUCTS
    /\ request_counter = EmptyBag
    /\ error_counter = EmptyBag
    /\ pc = [r \in Slots |-> "idle"]
    /\ req = [r \in Slots |-> NoRequest]
    /\ user = [r \in Slots |-> None]
    /\ total = [r \in Slots |-> 0]
    /\ order_items = [r \in Slots |-> << >>]
    /\ delay = [r \in Slots |-> 0]
    /\ exc = [r \in Slots |-> ""]
    /\ resp = [r \in Slots |-> NoResponse]
    /\ trace = [r \in Slots |-> << >>]
    /\ attrs = [r \in Slots |-> {}]

(* --------------------------------------------------------------- helpers *)

\* counter.add(1, labels)
add(counter, labels) == counter (+) SetToBag({labels})

\* u["id"] == x for a JSON value x: an int equals the int of the same value,
\* and nothing else of the model's JSON values.
PyEq(id, x) == x.t = "int" /\ x.n = id

\* Mutant: the filter of the generator is lost, the first record is returned.
find_by_id_first(db, x) == IF db = << >> THEN None ELSE Head(db)

\* next((e for e in db if e["id"] == x), None)
RECURSIVE find_by_id(_, _)
find_by_id(db, x) ==
    IF db = << >> THEN None
    ELSE IF PyEq(Head(db).id, x) THEN Head(db)
    ELSE find_by_id(Tail(db), x)

start_span(r, name) == Append(trace[r], <<"start", name>>)
end_span(tr, name) == Append(tr, <<"end", name>>)
attribute(span, key, val) == [span |-> span, key |-> key, val |-> val]

\* Route dispatch: the request reaches its handler.
Receive(r, q) ==
    /\ pc[r] = "idle"
    /\ pc' = [pc EXCEPT ![r] = "dispatched"]
    /\ req' = [req EXCEPT ![r] = q]
    /\ UNCHANGED << dbs, request_counter, error_counter, locals, exc, resp,
                    trace, attrs >>

Dispatched(r, route) == pc[r] = "dispatched" /\ req[r].route = route

(* -------------------------------------------------------------- handlers *)

health(r) ==
    /\ Dispatched(r, "health")
    /\ request_counter' =
           add(request_counter, [endpoint |-> "/health", method |-> "GET"])
    /\ resp' = [resp EXCEPT ![r] =
           Response([status |-> "healthy", service |-> "demo-api"], 200)]
    /\ pc' = [pc EXCEPT ![r] = "done"]
    /\ UNCHANGED << dbs, error_counter, req, locals, exc, trace, attrs >>

get_users_begin(r) ==
    /\ Dispatched(r, "users")
    /\ trace' = [trace EXCEPT ![r] = start_span(r, "get_users")]
    /\ pc' = [pc EXCEPT ![r] = "get_users"]
    /\ UNCHANGED << dbs, request_counter, error_counter, req, locals, exc,
                    resp, attrs >>

get_users(r) ==
    /\ pc[r] = "get_users"
    /\ attrs' = [attrs EXCEPT ![r] =
           @ \cup {attribute("get_users", "user.count", JInt(Len(users_db)))}]
    /\ request_counter' =
           add(request_counter, [endpoint |-> "/api/users", method |-> "GET"])
    /\ resp' = [resp EXCEPT ![r] = Response(JArray(users_db), 200)]
    /\ trace' = [trace EXCEPT ![r] = end_span(@, "get_users")]
    /\ pc' = [pc EXCEPT ![r] = "done"]
    /\ UNCHANGED << dbs, error_counter, req, locals, exc >>

get_user_begin(r) ==
    /\ Dispatched(r, "user")
    /\ trace' = [trace EXCEPT ![r] = start_span(r, "get_user")]
    /\ attrs' = [attrs EXCEPT ![r] =
           @ \cup {attribute("get_user", "user.id", JInt(req[r].id))}]
    /\ pc' = [pc EXCEPT ![r] = "get_user"]
    /\ UNCHANGED << dbs, request_counter, error_counter, req, locals, exc, resp >>

get_user(r) ==
    /\ pc[r] = "get_user"
    /\ LET found == find_by_id(users_db, JInt(req[r].id)) IN
         IF found # None
         THEN /\ request_counter' = add(request_counter,
                     [endpoint |-> "/api/users/:id", method |-> "GET",
                      status |-> "success"])
              /\ resp' = [resp EXCEPT ![r] = Response(found, 200)]
              /\ UNCHANGED error_counter
         ELSE /\ error_counter' = add(error_counter,
                     [endpoint |-> "/api/users/:id", error |-> "not_found"])
              /\ request_counter' = add(request_counter,
                     [endpoint |-> "/api/users/:id", method |-> "GET",
                      status |-> "error"])
              /\ resp' = [resp EXCEPT ![r] =
                     Response([error |-> "User not found"], 404)]
    /\ trace' = [trace EXCEPT ![r] = end_span(@, "get_user")]
    /\ pc' = [pc EXCEPT ![r] = "done"]
    /\ UNCHANGED << dbs, req, locals, exc, attrs >>

get_products_begin(r) ==
    /\ Dispatched(r, "products")
    /\ trace' = [trace EXCEPT ![r] = start_span(r, "get_products")]
    /\ pc' = [pc EXCEPT ![r] = "get_products"]
    /\ UNCHANGED << dbs, request_counter, error_counter, req, locals, exc,
                    resp, attrs >>

get_products(r) ==
    /\ pc[r] = "get_products"
    /\ attrs' = [attrs EXCEPT ![r] =
           @ \cup {attribute("get_products", "product.count",
                             JInt(Len(products_db)))}]
    /\ request_counter' =
           add(request_counter, [endpoint |-> "/api/products", method |-> "GET"])
    /\ resp' = [resp EXCEPT ![r] = Response(JArray(products_db), 200)]
    /\ trace' = [trace EXCEPT ![r] = end_span(@, "get_products")]
    /\ pc' = [pc EXCEPT ![r] = "done"]
    /\ UNCHANGED << dbs, error_counter, req, locals, exc >>

get_product_begin(r) ==
    /\ Dispatched(r, "product")
    /\ trace' = [trace EXCEPT ![r] = start_span(r, "get_product")]
    /\ attrs' = [attrs EXCEPT ![r] =
           @ \cup {attribute("get_product", "product.id", JInt(req[r].id))}]
    /\ pc' = [pc EXCEPT ![r] = "get_product"]
    /\ UNCHANGED << dbs, request_counter, error_counter, req, locals, exc, resp >>

get_product(r) ==
    /\ pc[r] = "get_product"
    /\ LET found == find_by_id(products_db, JInt(req[r].id)) IN
         IF found # None
         THEN /\ request_counter' = add(request_counter,
                     [endpoint |-> "/api/products/:id", method |-> "GET",
                      status |-> "success"])
              /\ resp' = [resp EXCEPT ![r] = Response(found, 200)]
              /\ UNCHANGED error_counter
         ELSE /\ error_counter' = add(error_counter,
                     [endpoint |-> "/api/products/:id", error |-> "not_found"])
              /\ request_counter' = add(request_counter,
                     [endpoint |-> "/api/products/:id", method |-> "GET",
                      status |-> "error"])
              /\ resp' = [resp EXCEPT ![r] =
                     Response([error |-> "Product not found"], 404)]
    /\ trace' = [trace EXCEPT ![r] = end_span(@, "get_product")]
    /\ pc' = [pc EXCEPT ![r] = "done"]
    /\ UNCHANGED << dbs, req, locals, exc, attrs >>

slow_endpoint_begin(r) ==
    /\ Dispatched(r, "slow")
    /\ \E d \in Delays :
         /\ delay' = [delay EXCEPT ![r] = d]
         /\ attrs' = [attrs EXCEPT ![r] =
                @ \cup {attribute("slow_endpoint", "delay.seconds", JInt(d))}]
    /\ trace' = [trace EXCEPT ![r] = start_span(r, "slow_endpoint")]
    /\ pc' = [pc EXCEPT ![r] = "slow_endpoint"]
    /\ UNCHANGED << dbs, request_counter, error_counter, req, user, total,
                    order_items, exc, resp >>

slow_endpoint(r) ==
    /\ pc[r] = "slow_endpoint"
    /\ request_counter' =
           add(request_counter, [endpoint |-> "/api/slow", method |-> "GET"])
    /\ resp' = [resp EXCEPT ![r] =
           Response([message |-> "This was slow!", delay |-> delay[r]], 200)]
    /\ trace' = [trace EXCEPT ![r] = end_span(@, "slow_endpoint")]
    /\ pc' = [pc EXCEPT ![r] = "done"]
    /\ UNCHANGED << dbs, error_counter, req, locals, exc, attrs >>

\* Mutant: error_endpoint raises without counting the error.
error_endpoint_uncounted(r) ==
    /\ Dispatched(r, "error")
    /\ exc' = [exc EXCEPT ![r] = "This is an intentional error for testing!"]
    /\ pc' = [pc EXCEPT ![r] = "raised"]
    /\ UNCHANGED << dbs, request_counter, error_counter, req, locals, resp,
                    trace, attrs >>

error_endpoint(r) ==
    /\ Dispatched(r, "error")
    /\ error_counter' = add(error_counter,
           [endpoint |-> "/api/error", error |-> "intentional"])
    /\ exc' = [exc EXCEPT ![r] = "This is an intentional error for testing!"]
    /\ pc' = [pc EXCEPT ![r] = "raised"]
    /\ UNCHANGED << dbs, request_counter, req, locals, resp, trace, attrs >>

\* Mutant: the handler answers with a fixed text instead of str(e).
handle_exception_redacted(r) ==
    /\ pc[r] = "raised"
    /\ error_counter' = add(error_counter, [error |-> "unhandled_exception"])
    /\ resp' = [resp EXCEPT ![r] =
           Response([error |-> "Internal Server Error"], 500)]
    /\ pc' = [pc EXCEPT ![r] = "done"]
    /\ UNCHANGED << dbs, request_counter, req, locals, exc, trace, attrs >>

\* The global exception handler: whatever a handler raised becomes a 500.
handle_exception(r) ==
    /\ pc[r] = "raised"
    /\ error_counter' = add(error_counter, [error |-> "unhandled_exception"])
    /\ resp' = [resp EXCEPT ![r] = Response([error |-> exc[r]], 500)]
    /\ pc' = [pc EXCEPT ![r] = "done"]
    /\ UNCHANGED << dbs, request_counter, req, locals, exc, trace, attrs >>

(* ---------------------------------------------------------- create_order *)

\* Mutant: the check of product_ids is lost.
presence_check_user_only(data) ==
    IF data.kind = "none" THEN "invalid"
    ELSE IF data.kind = "number" THEN "raise"
    ELSE IF data.keys = {} THEN "invalid"
    ELSE IF "user_id" \notin data.keys THEN "invalid"
    ELSE "ok"

\* `not data or 'user_id' not in data or 'product_ids' not in data`:
\* "invalid" when it is true, "ok" when it is false, "raise" when `in` is
\* applied to a number (None and {} are falsy and never reach `in`).
presence_check(data) ==
    IF data.kind = "none" THEN "invalid"
    ELSE IF data.kind = "number" THEN "raise"
    ELSE IF data.keys = {} THEN "invalid"
    ELSE IF "user_id" \notin data.keys THEN "invalid"
    ELSE IF "product_ids" \notin data.keys THEN "invalid"
    ELSE "ok"

\* len(x) is defined for an array, and raises TypeError for null or a number.
has_len(x) == x.t = "list"

len_error(x) ==
    IF x.t = "null" THEN "object of type 'NoneType' has no len()"
    ELSE "object of type 'int' has no len()"

\* The loop of calculate_total over product_ids, from `acc`.
RECURSIVE calculate_total_from(_, _, _)
calculate_total_from(product_ids, db, acc) ==
    IF product_ids = << >> THEN acc
    ELSE LET product == find_by_id(db, JInt(Head(product_ids))) IN
         calculate_total_from(
             Tail(product_ids), db,
             IF product # None
             THEN [total |-> acc.total + product.price,
                   items |-> Append(acc.items, product)]
             ELSE acc)

\* Mutant: the loop ends at the first unknown id (break for continue).
RECURSIVE calculate_total_break_from(_, _, _)
calculate_total_break_from(product_ids, db, acc) ==
    IF product_ids = << >> THEN acc
    ELSE LET product == find_by_id(db, JInt(Head(product_ids))) IN
         IF product = None THEN acc
         ELSE calculate_total_break_from(
                  Tail(product_ids), db,
                  [total |-> acc.total + product.price,
                   items |-> Append(acc.items, product)])

calculate_total_break(product_ids, db) ==
    calculate_total_break_from(product_ids, db, [total |-> 0, items |-> << >>])

\* total = 0; order_items = []; for pid in product_ids: ...
calculate_total(product_ids, db) ==
    calculate_total_from(product_ids, db, [total |-> 0, items |-> << >>])

\* Mutant: the payment is recorded before the total is known.
payment_attributes_unset(amount) ==
    { attribute("process_payment", "payment.amount", JInt(0)),
      attribute("process_payment", "payment.status", JStr("success")) }

\* The attributes process_payment sets on its span.
payment_attributes(amount) ==
    { attribute("process_payment", "payment.amount", JInt(amount)),
      attribute("process_payment", "payment.status", JStr("success")) }

\* Up to the first sleep: the presence check, the two locals, the span
\* attributes, and the start of validate_user.
create_order_begin(r) ==
    /\ Dispatched(r, "order")
    /\ LET data == req[r].data
           checked == presence_check(data)
           tr == start_span(r, "create_order")
       IN
         CASE checked = "invalid" ->
                /\ error_counter' = add(error_counter,
                       [endpoint |-> "/api/order", error |-> "invalid_data"])
                /\ resp' = [resp EXCEPT ![r] =
                       Response([error |-> "Invalid order data"], 400)]
                /\ trace' = [trace EXCEPT ![r] = end_span(tr, "create_order")]
                /\ pc' = [pc EXCEPT ![r] = "done"]
                /\ UNCHANGED << exc, attrs >>
           [] checked = "raise" ->
                /\ exc' = [exc EXCEPT ![r] =
                       "argument of type 'int' is not iterable"]
                /\ trace' = [trace EXCEPT ![r] = end_span(tr, "create_order")]
                /\ pc' = [pc EXCEPT ![r] = "raised"]
                /\ UNCHANGED << error_counter, resp, attrs >>
           [] checked = "ok" /\ ~has_len(data.product_ids) ->
                /\ attrs' = [attrs EXCEPT ![r] = @ \cup
                       {attribute("create_order", "order.user_id", data.user_id)}]
                /\ exc' = [exc EXCEPT ![r] = len_error(data.product_ids)]
                /\ trace' = [trace EXCEPT ![r] = end_span(tr, "create_order")]
                /\ pc' = [pc EXCEPT ![r] = "raised"]
                /\ UNCHANGED << error_counter, resp >>
           [] checked = "ok" /\ has_len(data.product_ids) ->
                /\ attrs' = [attrs EXCEPT ![r] = @ \cup
                       {attribute("create_order", "order.user_id", data.user_id),
                        attribute("create_order", "order.product_count",
                                  JInt(Len(data.product_ids.l)))}]
                /\ trace' = [trace EXCEPT ![r] =
                       Append(tr, <<"start", "validate_user">>)]
                /\ pc' = [pc EXCEPT ![r] = "validate_user"]
                /\ UNCHANGED << error_counter, resp, exc >>
    /\ UNCHANGED << dbs, request_counter, req, locals >>

\* After validate_user's sleep: the lookup, the 404, or on to calculate_total.
validate_user(r) ==
    /\ pc[r] = "validate_user"
    /\ LET found == find_by_id(users_db, req[r].data.user_id) IN
         IF found = None
         THEN /\ error_counter' = add(error_counter,
                     [endpoint |-> "/api/order", error |-> "user_not_found"])
              /\ resp' = [resp EXCEPT ![r] =
                     Response([error |-> "User not found"], 404)]
              /\ trace' = [trace EXCEPT ![r] =
                     end_span(end_span(@, "validate_user"), "create_order")]
              /\ pc' = [pc EXCEPT ![r] = "done"]
              /\ UNCHANGED user
         ELSE /\ user' = [user EXCEPT ![r] = found]
              /\ trace' = [trace EXCEPT ![r] =
                     Append(end_span(@, "validate_user"),
                            <<"start", "calculate_total">>)]
              /\ pc' = [pc EXCEPT ![r] = "calculate_total"]
              /\ UNCHANGED << error_counter, resp >>
    /\ UNCHANGED << dbs, request_counter, req, total, order_items, delay,
                    exc, attrs >>

\* Mutant: order_items aliases the product collection (order_items =
\* products_db for order_items = []), so each append lands in the collection.
calculate_total_step_alias(r) ==
    /\ pc[r] = "calculate_total"
    /\ LET res == calculate_total(req[r].data.product_ids.l, products_db) IN
         /\ total' = [total EXCEPT ![r] = res.total]
         /\ order_items' = [order_items EXCEPT ![r] = products_db \o res.items]
         /\ products_db' = products_db \o res.items
    /\ trace' = [trace EXCEPT ![r] =
           Append(end_span(@, "calculate_total"), <<"start", "process_payment">>)]
    /\ pc' = [pc EXCEPT ![r] = "process_payment"]
    /\ UNCHANGED << users_db, request_counter, error_counter, req, user, delay,
                    exc, resp, attrs >>

\* The totals the other slots hold.
RECURSIVE totals_of(_)
totals_of(S) ==
    IF S = {} THEN 0
    ELSE LET s == CHOOSE x \in S : TRUE IN total[s] + totals_of(S \ {s})

\* Mutant: total is a module-level running total that no request resets.
calculate_total_step_global(r) ==
    /\ pc[r] = "calculate_total"
    /\ LET res == calculate_total_from(
                      req[r].data.product_ids.l, products_db,
                      [total |-> totals_of(Slots \ {r}), items |-> << >>]) IN
         /\ total' = [total EXCEPT ![r] = res.total]
         /\ order_items' = [order_items EXCEPT ![r] = res.items]
    /\ trace' = [trace EXCEPT ![r] =
           Append(end_span(@, "calculate_total"), <<"start", "process_payment">>)]
    /\ pc' = [pc EXCEPT ![r] = "process_payment"]
    /\ UNCHANGED << dbs, request_counter, error_counter, req, user, delay,
                    exc, resp, attrs >>

\* After calculate_total's sleep: the loop, then the start of process_payment.
calculate_total_step(r) ==
    /\ pc[r] = "calculate_total"
    /\ LET res == calculate_total(req[r].data.product_ids.l, products_db) IN
         /\ total' = [total EXCEPT ![r] = res.total]
         /\ order_items' = [order_items EXCEPT ![r] = res.items]
    /\ trace' = [trace EXCEPT ![r] =
           Append(end_span(@, "calculate_total"), <<"start", "process_payment">>)]
    /\ pc' = [pc EXCEPT ![r] = "process_payment"]
    /\ UNCHANGED << dbs, request_counter, error_counter, req, user, delay,
                    exc, resp, attrs >>

\* After process_payment's sleep: its attributes, the order, the 201.
process_payment(r) ==
    /\ pc[r] = "process_payment"
    /\ attrs' = [attrs EXCEPT ![r] = @ \cup payment_attributes(total[r])]
    /\ \E order_id \in OrderIds :
         resp' = [resp EXCEPT ![r] =
             Response([order_id |-> order_id, user |-> user[r],
                       items |-> order_items[r], total |-> total[r],
                       status |-> "completed"], 201)]
    /\ request_counter' = add(request_counter,
           [endpoint |-> "/api/order", method |-> "POST", status |-> "success"])
    /\ trace' = [trace EXCEPT ![r] =
           end_span(end_span(@, "process_payment"), "create_order")]
    /\ pc' = [pc EXCEPT ![r] = "done"]
    /\ UNCHANGED << dbs, error_counter, req, locals, exc >>

(* --------------------------------------------------------- specifications *)

Handle(r) ==
    \/ health(r)
    \/ get_users_begin(r)
    \/ get_users(r)
    \/ get_user_begin(r)
    \/ get_user(r)
    \/ get_products_begin(r)
    \/ get_products(r)
    \/ get_product_begin(r)
    \/ get_product(r)
    \/ create_order_begin(r)
    \/ validate_user(r)
    \/ calculate_total_step(r)
    \/ process_payment(r)
    \/ slow_endpoint_begin(r)
    \/ slow_endpoint(r)
    \/ error_endpoint(r)
    \/ handle_exception(r)

\* The server: NSlots requests, handled concurrently.
Next ==
    \E r \in Slots :
        \/ \E q \in SmallRequests : Receive(r, q)
        \/ Handle(r)

Spec == Init /\ [][Next]_vars

\* One request, of any shape within the bounds, handled alone.
NextOne ==
    \/ \E q \in RichRequests : Receive(1, q)
    \/ Handle(1)

SpecOne == Init /\ [][NextOne]_vars

(* ---------------------------------------------------------------- claims *)

Done(r) == pc[r] = "done"
Order(r) == req[r].route = "order"
Range(f) == { f[i] : i \in DOMAIN f }

\* The three user records and the three product records of the data model.
InitialUsers ==
    << [id |-> 1, name |-> "Alice", email |-> "alice@example.com"],
       [id |-> 2, name |-> "Bob", email |-> "bob@example.com"],
       [id |-> 3, name |-> "Charlie", email |-> "charlie@example.com"] >>

InitialProducts ==
    << [id |-> 1, name |-> "Laptop", price |-> 99999],
       [id |-> 2, name |-> "Mouse", price |-> 2999],
       [id |-> 3, name |-> "Keyboard", price |-> 7999] >>

\* The body lacks user_id or product_ids, or there is no body.
LacksFields(d) ==
    \/ d.kind # "object"
    \/ "user_id" \notin d.keys
    \/ "product_ids" \notin d.keys

\* The users a JSON value names (at most one: ids are unique).
UsersNamed(x) == { u \in Range(InitialUsers) : x.t = "int" /\ x.n = u.id }
ProductsWithId(i) == { p \in Range(InitialProducts) : p.id = i }

InvalidOrderData == Response([error |-> "Invalid order data"], 400)
UserNotFound == Response([error |-> "User not found"], 404)
ProductNotFound == Response([error |-> "Product not found"], 404)

FoundIds(ids) == SelectSeq(ids, LAMBDA i : ProductsWithId(i) # {})
ItemsOf(ids) ==
    [k \in 1..Len(FoundIds(ids)) |->
        CHOOSE p \in ProductsWithId(FoundIds(ids)[k]) : TRUE]

RECURSIVE SumPrices(_)
SumPrices(items) ==
    IF items = << >> THEN 0 ELSE Head(items).price + SumPrices(Tail(items))

\* An order body with both fields, product_ids an array, user_id a user.
ValidOrder(r) ==
    /\ Order(r)
    /\ ~LacksFields(req[r].data)
    /\ req[r].data.product_ids.t = "list"
    /\ UsersNamed(req[r].data.user_id) # {}

\* C2: an order of an existing user is answered 201 with the products found
\* for product_ids in request order (duplicates kept, unknown ids dropped),
\* the sum of their prices, the matched user and status "completed".
C2_OrderContents ==
    \A r \in Slots :
        Done(r) /\ ValidOrder(r) =>
            LET ids == req[r].data.product_ids.l IN
            /\ resp[r].status = 201
            /\ resp[r].body.items = ItemsOf(ids)
            /\ resp[r].body.total = SumPrices(ItemsOf(ids))
            /\ resp[r].body.user \in UsersNamed(req[r].data.user_id)
            /\ resp[r].body.status = "completed"
            /\ resp[r].body.order_id \in 1000..9999

\* An order with a duplicated and an unknown id: two Mouse records, 59.98.
C2_Witness ==
    \E r \in Slots :
        /\ Done(r) /\ ValidOrder(r)
        /\ req[r].data.product_ids.l = <<2, 4, 2>>
        /\ Len(resp[r].body.items) = 2
        /\ resp[r].body.total = 5998

\* The answer to a lookup by id in a collection.
LookupAnswer(r, db, notFound, endpoint) ==
    LET hits == { e \in Range(db) : e.id = req[r].id } IN
    IF req[r].id \in {1, 2, 3}
    THEN /\ resp[r].status = 200
         /\ resp[r].body.id = req[r].id
         /\ hits = {resp[r].body}
    ELSE /\ resp[r] = notFound
         /\ error_counter =
                SetToBag({[endpoint |-> endpoint, error |-> "not_found"]})

C4_ExceptionsBecome500 ==
    \A r \in Slots :
        /\ Done(r) => resp[r] # NoResponse
        /\ Done(r) /\ req[r].route = "error" =>
               resp[r] = Response(
                   [error |-> "This is an intentional error for testing!"], 500)
        /\ Done(r) /\ exc[r] # "" => resp[r] = Response([error |-> exc[r]], 500)
        /\ Done(r) /\ resp[r].status = 500 => exc[r] # ""
        /\ pc[r] = "raised" => exc[r] # "" /\ resp[r] = NoResponse
        /\ pc[r] \notin {"idle", "done"} => ENABLED Handle(r)

\* An order whose product_ids is null raised TypeError and was answered 500.
C4_Witness ==
    \E r \in Slots :
        /\ Done(r) /\ Order(r)
        /\ exc[r] = "object of type 'NoneType' has no len()"
        /\ resp[r].status = 500

Quiescent == \A r \in Slots : pc[r] \in {"idle", "done"}
DoneWith(statuses) == { r \in Slots : Done(r) /\ resp[r].status \in statuses }

\* C5 as stated: every 400, 404 and 500 response comes with an increment of
\* the error counter, and every increment carries an error kind label and an
\* endpoint label.
C5_ErrorLabels ==
    /\ Quiescent =>
           BagCardinality(error_counter) >= Cardinality(DoneWith({400, 404, 500}))
    /\ \A l \in BagToSet(error_counter) : {"error", "endpoint"} \subseteq DOMAIN l

\* C6: the collections hold their three initial records throughout, and
\* every answer of GET /api/users and GET /api/products is that content.
C6_CollectionsImmutable ==
    /\ users_db = InitialUsers
    /\ products_db = InitialProducts
    /\ \A r \in Slots :
           /\ Done(r) /\ req[r].route = "users" =>
                  resp[r] = Response(JArray(InitialUsers), 200)
           /\ Done(r) /\ req[r].route = "products" =>
                  resp[r] = Response(JArray(InitialProducts), 200)

\* The product list has been served beside a completed order.
C6_Witness ==
    \E r, s \in Slots :
        /\ Done(r) /\ Order(r) /\ resp[r].status = 201
        /\ Done(s) /\ req[s].route = "products"
        /\ resp[s].body = JArray(InitialProducts)

\* A response without its random parts (order_id, delay).
Determined(rs) ==
    IF rs.status = 201
    THEN Response([user |-> rs.body.user, items |-> rs.body.items,
                   total |-> rs.body.total, status |-> rs.body.status], 201)
    ELSE IF rs.status = 200 /\ "delay" \in DOMAIN rs.body
    THEN Response([message |-> rs.body.message], 200)
    ELSE rs

\* What a request is answered when it is the only one, random parts left out.
AnsweredAlone(q) ==
    CASE q.route = "health" ->
           Response([status |-> "healthy", service |-> "demo-api"], 200)
      [] q.route = "users" -> Response(JArray(InitialUsers), 200)
      [] q.route = "products" -> Response(JArray(InitialProducts), 200)
      [] q.route = "user" ->
           IF UsersNamed(JInt(q.id)) = {} THEN UserNotFound
           ELSE Response(CHOOSE u \in UsersNamed(JInt(q.id)) : TRUE, 200)
      [] q.route = "product" ->
           IF ProductsWithId(q.id) = {} THEN ProductNotFound
           ELSE Response(CHOOSE p \in ProductsWithId(q.id) : TRUE, 200)
      [] q.route = "slow" -> Response([message |-> "This was slow!"], 200)
      [] q.route = "error" ->
           Response([error |-> "This is an intentional error for testing!"], 500)
      [] q.route = "order" ->
           IF q.data.kind = "number"
           THEN Response([error |-> "argument of type 'int' is not iterable"], 500)
           ELSE IF LacksFields(q.data) THEN InvalidOrderData
           ELSE IF q.data.product_ids.t = "null"
           THEN Response([error |-> "object of type 'NoneType' has no len()"], 500)
           ELSE IF q.data.product_ids.t = "int"
           THEN Response([error |-> "object of type 'int' has no len()"], 500)
           ELSE IF UsersNamed(q.data.user_id) = {} THEN UserNotFound
           ELSE Response(
                    [user |-> CHOOSE u \in UsersNamed(q.data.user_id) : TRUE,
                     items |-> ItemsOf(q.data.product_ids.l),
                     total |-> SumPrices(ItemsOf(q.data.product_ids.l)),
                     status |-> "completed"], 201)

\* C7: under every interleaving, each request is answered as if it had been
\* handled alone (order_id and delay apart).
C7_HandledIndependently ==
    \A r \in Slots : Done(r) => Determined(resp[r]) = AnsweredAlone(req[r])

\* An order was completed while another order stood between two of its steps.
C7_Witness ==
    \E r, s \in Slots :
        /\ Done(r) /\ ValidOrder(r) /\ resp[r].status = 201
        /\ resp[r].body.total > 0
        /\ ValidOrder(s) /\ pc[s] = "process_payment"
        /\ total[s] > 0 /\ total[s] # resp[r].body.total

\* C8 as stated: every increment of the request counter carries the labels
\* endpoint, method and status.
C8_RequestLabels ==
    \A l \in BagToSet(request_counter) :
        {"endpoint", "method", "status"} \subseteq DOMAIN l

Started(name) == <<"start", name>>
Ended(name) == <<"end", name>>

\* C9: the sub-steps of an order run one after the other: none for a 400,
\* validate_user alone for a 404, and for a 201 validate_user,
\* calculate_total and process_payment in this order, each ended before the
\* next starts, the payment recorded as "success" with the total returned;
\* no 201 is sent before that.
C9_OrderSteps ==
    \A r \in Slots :
        /\ Order(r) /\ ~Done(r) => resp[r] = NoResponse
        /\ Done(r) /\ Order(r) /\ resp[r].status = 400 =>
               trace[r] = << Started("create_order"), Ended("create_order") >>
        /\ Done(r) /\ Order(r) /\ resp[r].status = 404 =>
               trace[r] = << Started("create_order"), Started("validate_user"),
                             Ended("validate_user"), Ended("create_order") >>
        /\ Done(r) /\ Order(r) /\ resp[r].status = 201 =>
               /\ trace[r] =
                      << Started("create_order"),
                         Started("validate_user"), Ended("validate_user"),
                         Started("calculate_total"), Ended("calculate_total"),
                         Started("process_payment"), Ended("process_payment"),
                         Ended("create_order") >>
               /\ { a.val : a \in { b \in attrs[r] : b.span = "process_payment" } }
                      = { JInt(resp[r].body.total), JStr("success") }
               /\ [span |-> "process_payment", key |-> "payment.amount",
                   val |-> JInt(resp[r].body.total)] \in attrs[r]
               /\ [span |-> "process_payment", key |-> "payment.status",
                   val |-> JStr("success")] \in attrs[r]

\* An order of a Laptop and a Mouse was paid: 1029.98.
C9_Witness ==
    \E r \in Slots :
        /\ Done(r) /\ Order(r) /\ resp[r].status = 201
        /\ resp[r].body.total = 99999 + 2999
        /\ Len(trace[r]) = 8

\* C10: once every request has ended, the request counter holds one
\* increment for each 200 or 201 and for each 404 of a lookup by id, none for
\* a 400 or 404 of an order nor for /api/error; the error counter holds one
\* for each 400 or 404, two (intentional, unhandled_exception) for each
\* request to /api/error, none for a 200 or 201 (and one for each other 500).
C10_CounterAccounting ==
    Quiescent =>
        LET lookups404 == { r \in DoneWith({404}) : req[r].route \in {"user", "product"} }
            errors == { r \in Slots : Done(r) /\ req[r].route = "error" }
            other500 == DoneWith({500}) \ errors
        IN
        /\ BagCardinality(request_counter) =
               Cardinality(DoneWith({200, 201})) + Cardinality(lookups404)
        /\ BagCardinality(error_counter) =
               Cardinality(DoneWith({400, 404})) + 2 * Cardinality(errors)
                   + Cardinality(other500)
        /\ CopiesIn([endpoint |-> "/api/error", error |-> "intentional"],
                    error_counter) = Cardinality(errors)
        /\ CopiesIn([error |-> "unhandled_exception"], error_counter) =
               Cardinality(errors) + Cardinality(other500)

\* A request to /api/error and an order for an unknown user have both ended.
C10_Witness ==
    \E r, s \in Slots :
        /\ Done(r) /\ req[r].route = "error" /\ resp[r].status = 500
        /\ Done(s) /\ Order(s) /\ resp[s] = UserNotFound
        /\ BagCardinality(error_counter) = 3
        /\ request_counter = EmptyBag

====
